---------------------------- MODULE Spec2Model ----------------------------
(***************************************************************************)
(* A model of SandboxTimeoutManager (lib/sandbox-timeout-manager.ts): the  *)
(* retry loop of executeWithTimeout, the per-call timeout race, the        *)
(* classification of errors, extendSandboxTimeout with its isExtending     *)
(* guard, the auto-extend interval timer, cleanup, isSandboxActive, and    *)
(* the module-level slot of setGlobalTimeoutManager; of crawlWebsite       *)
(* (lib/context-selector.ts); and of SessionManager.getCurrentSession      *)
(* (lib/session-manager.ts).                                               *)
(*                                                                         *)
(* Time is the value of Date.now() in milliseconds since the manager was   *)
(* constructed.  A JavaScript async function runs without interruption     *)
(* from one await to the next, so each action below is one such segment.   *)
(* Messages are sequences of one-character strings, so that toLowerCase    *)
(* and includes are computed rather than assumed.                          *)
(***************************************************************************)
EXTENDS Integers, Sequences, FiniteSets, TLC

(***************************************************************************)
(* Bounds of the model.                                                    *)
(***************************************************************************)
\* options.maxRetries is drawn from 0..MaxRetriesBound
MaxRetriesBound == 2
\* new executeWithTimeout calls are issued while now < MaxTime * Quantum
MaxTime == 2
\* cleanup() is called on one manager at most MaxCleanups times
MaxCleanups == 2
\* options.maxPages of a crawl is drawn from 0..MaxPagesBound
MaxPagesBound == 3
\* options.maxDepth of a crawl is drawn from 0..MaxDepthBound
MaxDepthBound == 2

\* concurrent executeWithTimeout calls on the one manager
Calls == {"c1", "c2"}
\* everything that calls extendSandboxTimeout: the retry loops, the interval
\* callback, and a caller outside the class (the health route)
Owners == Calls \cup {"tick", "direct"}
\* the URLs of the site crawled
Urls == {"u1", "u2", "u3"}
\* concurrent callers of the session manager and the methods they invoke
SessionCallers == {"s1", "s2"}
SessionMethods == {"getCurrentSession", "addMessage", "createJob", "createSandbox",
                   "createCheckpoint"}

(***************************************************************************)
(* Program constants.                                                      *)
(***************************************************************************)
\* the smallest check interval: autoExtendThreshold = 1 gives 1*60*1000/2
Quantum == 30000
\* the cap of the check interval
MaxCheckInterval == 60000
\* appConfig.e2b defaults
DefaultProcessTimeout == 30000
DefaultRetryDelay == 2000
DefaultMaxRetries == 3
DefaultWaitBetweenRequests == 1000
DefaultAutoExtendThreshold == 5
TimeoutMinutes == 45

LeaseMs == TimeoutMinutes * 60 * 1000

(***************************************************************************)
(* Strings.                                                                *)
(***************************************************************************)
UpperChars == <<"A", "B", "C", "D", "E", "F", "G", "H", "I", "J", "K", "L", "M", "N", "O", "P", "Q", "R", "S", "T", "U", "V", "W", "X", "Y", "Z">>
LowerChars == <<"a", "b", "c", "d", "e", "f", "g", "h", "i", "j", "k", "l", "m", "n", "o", "p", "q", "r", "s", "t", "u", "v", "w", "x", "y", "z">>
DigitChars == <<"0", "1", "2", "3", "4", "5", "6", "7", "8", "9">>

\* String.prototype.toLowerCase, on the ASCII letters
UpperToLower ==
    [ch \in {UpperChars[j] : j \in 1..Len(UpperChars)} |->
        LowerChars[CHOOSE j \in 1..Len(UpperChars) : UpperChars[j] = ch]]

ToLowerCase(s) ==
    [i \in 1..Len(s) |->
        IF s[i] \in DOMAIN UpperToLower THEN UpperToLower[s[i]] ELSE s[i]]

\* String.prototype.includes
Includes(s, k) ==
    \E i \in 1..(Len(s) - Len(k) + 1) : \A j \in 1..Len(k) : s[i + j - 1] = k[j]

\* the decimal text of a number inside a template literal
RECURSIVE NumToStr(_)
NumToStr(n) ==
    IF n < 0 THEN <<"-">> \o NumToStr(0 - n)
    ELSE IF n < 10 THEN <<DigitChars[n + 1]>>
    ELSE NumToStr(n \div 10) \o <<DigitChars[(n % 10) + 1]>>

Min(S) == CHOOSE x \in S : \A y \in S : x <= y

DefaultOperationName == <<"s", "a", "n", "d", "b", "o", "x", " ", "o", "p", "e", "r", "a", "t", "i", "o", "n">>

\* messages the wrapped operation rejects with
BadGateway == <<"E", "r", "r", "o", "r", ":", " ", "5", "0", "2", " ", "B", "a", "d", " ", "G", "a", "t", "e", "w", "a", "y">>
InvalidSyntax == <<"i", "n", "v", "a", "l", "i", "d", " ", "s", "y", "n", "t", "a", "x">>
OpErrorMessages == {BadGateway, InvalidSyntax}
\* message sandbox.setTimeout rejects with
FetchFailed == <<"f", "e", "t", "c", "h", " ", "f", "a", "i", "l", "e", "d">>
RenewErrorMessages == {FetchFailed}

\* an Error object, or the null that `throw lastError!` throws
Err(m) == [isNull |-> FALSE, message |-> m]
NullError == [isNull |-> TRUE, message |-> <<>>]

(***************************************************************************)
(* Pure parts of the class.                                                *)
(***************************************************************************)
TimeoutKeywords ==
    { <<"t", "i", "m", "e", "o", "u", "t">>,
      <<"5", "0", "2">>,
      <<"n", "o", "t", " ", "f", "o", "u", "n", "d">>,
      <<"e", "x", "p", "i", "r", "e", "d">>,
      <<"t", "e", "r", "m", "i", "n", "a", "t", "e", "d">> }

IsTimeoutError(message) ==
    \E errorMessage \in {ToLowerCase(message)} :
    \E keyword \in TimeoutKeywords : Includes(errorMessage, keyword)

\* the rejection of the timer in withTimeout
TimeoutMessage(timeoutMs) ==
    <<"O", "p", "e", "r", "a", "t", "i", "o", "n", " ", "t", "i", "m", "e", "d", " ", "o", "u", "t", " ", "a", "f", "t", "e", "r", " ">>
        \o NumToStr(timeoutMs) \o <<"m", "s">>

\* the Error thrown on the last attempt
FailureMessage(operationName, maxRetries, lastMessage) ==
    <<"F", "a", "i", "l", "e", "d", " ", "t", "o", " ", "e", "x", "e", "c", "u", "t", "e", " ">>
        \o operationName \o <<" ", "a", "f", "t", "e", "r", " ">> \o NumToStr(maxRetries)
        \o <<" ", "a", "t", "t", "e", "m", "p", "t", "s", ".", " ", "L", "a", "s", "t", " ", "e", "r", "r", "o", "r", ":", " ">>
        \o lastMessage

\* for (let attempt = 1; attempt <= maxRetries; attempt++)
LoopContinues_OffByOne(k, maxRetries) == k < maxRetries
LoopContinues_DoWhile(k, maxRetries) == k = 1 \/ k <= maxRetries
LoopContinues(k, maxRetries) == k <= maxRetries

\* if (attempt === this.options.maxRetries)
IsLastAttempt_Never(k, maxRetries) == FALSE
IsLastAttempt(k, maxRetries) == k = maxRetries

\* where control goes when the race resolves: `return result`
AfterSuccess_FallThrough(k, maxRetries) == IF k < maxRetries THEN "awaitDelay" ELSE "resolved"
AfterSuccess(k, maxRetries) == "resolved"

\* if (this.isTimeoutError(error)): is the inline extension attempted after
\* attempt k failed with `message`
ExtendsAfter_OnlyBeforeRetry(k, maxRetries, message) == IsTimeoutError(message) /\ k < maxRetries
ExtendsAfter_AnyFailure(k, maxRetries, message) == TRUE
ExtendsAfter(k, maxRetries, message) == IsTimeoutError(message)

\* the try/catch around the inline extendSandboxTimeout: does the retry loop go on
\* after an inline extension that ended `outcome`
SurvivesExtend_NoCatch(outcome) == outcome # "threw"
SurvivesExtend(outcome) == TRUE

\* Math.min(autoExtendThreshold * 60 * 1000 / 2, 60000)
CheckInterval(threshold) ==
    Min({(threshold * 60 * 1000) \div 2, MaxCheckInterval})

ThresholdMs(threshold) == threshold * 60 * 1000

\* timeSinceLastActivity > thresholdMs * 0.8 (the product is exact in IEEE doubles
\* for every whole number of minutes modelled)
ShouldExtend_AtOrAbove(elapsed, threshold) == elapsed * 10 >= ThresholdMs(threshold) * 8
ShouldExtend(elapsed, threshold) == elapsed * 10 > ThresholdMs(threshold) * 8

(***************************************************************************)
(* State.                                                                  *)
(***************************************************************************)
VARIABLES
    now,              \* Date.now()
    options,          \* this.options
    hasSetTimeout,    \* typeof this.sandbox.setTimeout === 'function'
    lastActivity,     \* this.lastActivity
    isExtending,      \* this.isExtending
    autoExtendTimer,  \* this.autoExtendTimer is set
    nextTick,         \* when the interval timer fires next
    pc,               \* where each executeWithTimeout call is suspended
    attempt,          \* the loop variable of each call
    lastError,        \* lastError of each call
    settled,          \* how each call's promise settled
    opDeadline,       \* when the timer of the race a call awaits fires, else 0
    delayDeadline,    \* when the timer of the delay a call awaits fires, else 0
    ext,              \* each owner's latest extendSandboxTimeout invocation
    extError,         \* the error that invocation threw
    inFlight,         \* sandbox.setTimeout calls issued by each owner and not settled
    invoked,          \* history: operation() invocations of each call
    outcomes,         \* history: how each attempt of each call ended
    pendingOps,       \* history: attempts whose operation promise has not settled
    extendCalls,      \* history: inline extendSandboxTimeout invocations of each call
    renewThrew,       \* history: the attempts of each call whose inline extension threw
    leaseRenewedAt,   \* history: when sandbox.setTimeout last completed
    lastTick,         \* history: what the latest interval callback saw and did
    waits,            \* history: the delays each call has started, in order
    globalTimeoutManager,  \* the module-level slot: a manager or NoManager
    managerTimer,     \* autoExtendTimer is set, for each manager created
    cleanupCalls,     \* history: cleanup() calls made on each manager
    displaced,        \* history: managers the slot held and no longer holds
    timerStarted,     \* history: managers whose constructor started the timer
    directCleanups,   \* history: managers a caller invoked cleanup() on itself
    cleanedUp,        \* history: cleanup() has returned on the manager followed
    crawlPc,          \* crawlWebsite: "idle", "awaitFetch", "awaitWait", "returned", "threw"
    crawlOptions,     \* crawlWebsite: options
    site,             \* the links of the pages scraped so far
    queue,            \* crawlWebsite: queue
    visited,          \* crawlWebsite: visited
    pages,            \* crawlWebsite: pages
    errors,           \* crawlWebsite: errors, as the URLs that failed
    shifted,          \* crawlWebsite: { url, depth } of the iteration under way
    fetches,          \* history: crawlSinglePage calls made for each URL
    crawlResult,      \* what crawlWebsite returned
    currentSessionId, \* SessionManager.currentSessionId, NoSession for null
    sessionsCreated,  \* the sessions db.createSession has created
    sessionPc,        \* where each caller of the session manager is
    method,           \* the method each caller invoked
    verifying,        \* the id each caller passed to db.getSession
    sessionOf         \* the session id getCurrentSession returned to each caller

vars == <<now, options, hasSetTimeout, lastActivity, isExtending, autoExtendTimer,
          nextTick, pc, attempt, lastError, settled, opDeadline, delayDeadline,
          ext, extError, inFlight, invoked, outcomes, pendingOps, extendCalls,
          renewThrew, leaseRenewedAt, lastTick, waits, globalTimeoutManager,
          managerTimer, cleanupCalls, displaced, timerStarted, directCleanups,
          cleanedUp, crawlPc, crawlOptions, site, queue, visited, pages, errors,
          shifted, fetches, crawlResult, currentSessionId, sessionsCreated,
          sessionPc, method, verifying, sessionOf>>

\* the variables of a crawl and of the session manager
crawlVars == <<crawlPc, crawlOptions, site, queue, visited, pages, errors, shifted,
               fetches, crawlResult>>
sessionVars == <<currentSessionId, sessionsCreated, sessionPc, method, verifying,
                 sessionOf>>
NoSession == 0
NoResult == [pages |-> <<>>, totalPages |-> 0 - 1, errors |-> <<>>]

\* the module-level slot and the managers created besides the one followed in detail
slotVars == <<globalTimeoutManager, managerTimer, cleanupCalls, displaced,
              timerStarted, directCleanups>>

\* managers created by createTimeoutManager
Managers == {"m1", "m2", "m3"}
\* let globalTimeoutManager: SandboxTimeoutManager | null = null
NoManager == "null"

Unsettled == [kind |-> "none", value |-> <<>>, error |-> NullError]
Resolved(v) == [kind |-> "resolved", value |-> v, error |-> NullError]
Rejected(e) == [kind |-> "rejected", value |-> <<>>, error |-> e]

\* what the k-th invocation of call c's operation resolves with
OpValue(c, k) == <<c, k>>

NoTick == [elapsed |-> 0, extendCalls |-> 0]

\* the constructor, with `configs` the option records it may be given
Construct(configs) ==
    /\ now = 0
    /\ options \in configs
    /\ hasSetTimeout \in BOOLEAN
    /\ lastActivity = 0
    /\ isExtending = FALSE
    /\ autoExtendTimer = (options.autoExtendThreshold # 0)
    /\ nextTick = IF options.autoExtendThreshold # 0
                  THEN CheckInterval(options.autoExtendThreshold) ELSE 0
    /\ pc = [c \in Calls |-> "idle"]
    /\ attempt = [c \in Calls |-> 0]
    /\ lastError = [c \in Calls |-> NullError]
    /\ settled = [c \in Calls |-> Unsettled]
    /\ opDeadline = [c \in Calls |-> 0]
    /\ delayDeadline = [c \in Calls |-> 0]
    /\ ext = [o \in Owners |-> "none"]
    /\ extError = [o \in Owners |-> NullError]
    /\ inFlight = [o \in Owners |-> 0]
    /\ invoked = [c \in Calls |-> 0]
    /\ outcomes = [c \in Calls |-> <<>>]
    /\ pendingOps = [c \in Calls |-> {}]
    /\ extendCalls = [c \in Calls |-> 0]
    /\ renewThrew = [c \in Calls |-> {}]
    /\ leaseRenewedAt = 0
    /\ lastTick = NoTick
    /\ waits = [c \in Calls |-> <<>>]
    /\ globalTimeoutManager = NoManager
    /\ managerTimer = [m \in {} |-> FALSE]
    /\ cleanupCalls = [m \in {} |-> 0]
    /\ displaced = {}
    /\ timerStarted = {}
    /\ directCleanups = {}
    /\ cleanedUp = FALSE
    /\ crawlPc = "idle"
    /\ crawlOptions = [maxPages |-> 0, maxDepth |-> 0, waitBetweenRequests |-> 0]
    /\ site = [u \in {} |-> <<>>]
    /\ queue = <<>>
    /\ visited = {}
    /\ pages = <<>>
    /\ errors = <<>>
    /\ shifted = [url |-> "", depth |-> 0]
    /\ fetches = [u \in Urls |-> 0]
    /\ crawlResult = NoResult
    /\ currentSessionId = NoSession
    /\ sessionsCreated = 0
    /\ sessionPc = [g \in SessionCallers |-> "idle"]
    /\ method = [g \in SessionCallers |-> ""]
    /\ verifying = [g \in SessionCallers |-> NoSession]
    /\ sessionOf = [g \in SessionCallers |-> NoSession]

\* the options the retry loop is explored with; autoExtendThreshold 0 starts no timer
Configs ==
    [maxRetries : 0..MaxRetriesBound,
     retryDelay : {DefaultRetryDelay},
     processTimeout : {DefaultProcessTimeout},
     autoExtendThreshold : {0, 1}]

Init == Construct(Configs)


(***************************************************************************)
(* extendSandboxTimeout.                                                   *)
(***************************************************************************)
\* if (this.isExtending) return
AlreadyExtending_Unguarded(flag) == FALSE
AlreadyExtending(flag) == flag

\* isExtending when extendSandboxTimeout exits; `threw` says whether the body threw:
\* finally { this.isExtending = false }
FlagOnExit_NoFinally(threw) == threw
FlagOnExit(threw) == FALSE

\* what `o` holds once its extendSandboxTimeout invocation has ended `r`: the
\* interval callback keeps nothing of it
Held_TickRethrows(o, r) == r
Held(o, r) == IF o = "tick" /\ r # "pending" THEN "none" ELSE r

\* the error `o` receives from an extendSandboxTimeout whose sandbox.setTimeout
\* threw the error with message m: try/finally has no catch; the interval callback
\* catches it
Propagated_Swallowed(o, m) == NullError
Propagated(o, m) == IF o = "tick" THEN NullError ELSE Err(m)

\* extendSandboxTimeout called by `o`, up to its await of sandbox.setTimeout or,
\* when nothing is awaited, to its return
ExtendEnter(o) ==
    IF AlreadyExtending(isExtending)
    THEN /\ ext' = [ext EXCEPT ![o] = Held(o, "skipped")]
         /\ UNCHANGED <<isExtending, inFlight>>
    ELSE IF hasSetTimeout
    THEN /\ isExtending' = TRUE
         /\ inFlight' = [inFlight EXCEPT ![o] = @ + 1]
         /\ ext' = [ext EXCEPT ![o] = Held(o, "pending")]
    ELSE /\ isExtending' = FlagOnExit(FALSE)
         /\ ext' = [ext EXCEPT ![o] = Held(o, "noop")]
         /\ UNCHANGED inFlight

\* sandbox.setTimeout resolves: updateLastActivity, then the finally block
RenewResolve(o) ==
    /\ inFlight[o] > 0
    /\ inFlight' = [inFlight EXCEPT ![o] = @ - 1]
    /\ lastActivity' = now
    /\ leaseRenewedAt' = now
    /\ isExtending' = FlagOnExit(FALSE)
    /\ ext' = [ext EXCEPT ![o] = Held(o, "ok")]
    /\ UNCHANGED <<now, options, hasSetTimeout, crawlVars, sessionVars, slotVars, cleanedUp, waits, autoExtendTimer, nextTick, pc, attempt,
                   lastError, settled, opDeadline, delayDeadline, extError, invoked,
                   outcomes, pendingOps, extendCalls, renewThrew, lastTick>>

\* sandbox.setTimeout rejects: the finally block, and the error goes to the caller
RenewReject(o, m) ==
    /\ inFlight[o] > 0
    /\ inFlight' = [inFlight EXCEPT ![o] = @ - 1]
    /\ isExtending' = FlagOnExit(TRUE)
    /\ ext' = [ext EXCEPT ![o] = Held(o, "threw")]
    /\ extError' = [extError EXCEPT ![o] = Propagated(o, m)]
    /\ UNCHANGED <<now, options, hasSetTimeout, crawlVars, sessionVars, slotVars, cleanedUp, waits, lastActivity, autoExtendTimer, nextTick,
                   pc, attempt, lastError, settled, opDeadline, delayDeadline, invoked,
                   outcomes, pendingOps, extendCalls, renewThrew, leaseRenewedAt,
                   lastTick>>

\* a caller outside the class awaits manager.extendSandboxTimeout()
DirectExtend ==
    /\ ext["direct"] # "pending"
    /\ ExtendEnter("direct")
    /\ UNCHANGED <<now, options, hasSetTimeout, crawlVars, sessionVars, slotVars, cleanedUp, waits, lastActivity, autoExtendTimer, nextTick,
                   pc, attempt, lastError, settled, opDeadline, delayDeadline, extError,
                   invoked, outcomes, pendingOps, extendCalls, renewThrew,
                   leaseRenewedAt, lastTick>>

\* the response of POST /api/sandbox-health {action: 'extend_timeout'}, with an
\* active sandbox and a manager in the slot, once its
\* `await timeoutManager.extendSandboxTimeout()` has ended `r`: success when it
\* returned, the catch block's 500 when it threw
ExtendTimeoutResponse(r) ==
    IF r \in {"skipped", "noop", "ok"} THEN [success |-> TRUE, status |-> 200]
    ELSE IF r = "threw" THEN [success |-> FALSE, status |-> 500]
    ELSE [success |-> FALSE, status |-> 0]

(***************************************************************************)
(* executeWithTimeout.                                                     *)
(***************************************************************************)
\* the loop head for attempt k and the body up to the await of the race; when the
\* loop condition fails, `throw lastError!`.  err, inv and pend are the call's
\* lastError, invocation count and unsettled operations on entry.
LoopIteration(c, k, err, inv, pend) ==
    /\ attempt' = [attempt EXCEPT ![c] = k]
    /\ IF LoopContinues(k, options.maxRetries)
       THEN /\ lastActivity' = now
            /\ invoked' = [invoked EXCEPT ![c] = inv + 1]
            /\ pendingOps' = [pendingOps EXCEPT ![c] = pend \cup {inv + 1}]
            /\ opDeadline' = [opDeadline EXCEPT ![c] = now + options.processTimeout]
            /\ pc' = [pc EXCEPT ![c] = "awaitOp"]
            /\ settled' = [settled EXCEPT ![c] = Unsettled]
       ELSE /\ pc' = [pc EXCEPT ![c] = "rejected"]
            /\ settled' = [settled EXCEPT ![c] = Rejected(err)]
            /\ invoked' = [invoked EXCEPT ![c] = inv]
            /\ pendingOps' = [pendingOps EXCEPT ![c] = pend]
            /\ UNCHANGED <<lastActivity, opDeadline>>

\* the end of the catch block: throw on the last attempt, else start the delay
Conclude(c, error) ==
    IF IsLastAttempt(attempt[c], options.maxRetries)
    THEN /\ pc' = [pc EXCEPT ![c] = "rejected"]
         /\ settled' = [settled EXCEPT ![c] = Rejected(Err(
                FailureMessage(DefaultOperationName, options.maxRetries, error.message)))]
         /\ UNCHANGED <<delayDeadline, waits>>
    ELSE /\ pc' = [pc EXCEPT ![c] = "awaitDelay"]
         /\ delayDeadline' = [delayDeadline EXCEPT ![c] = now + options.retryDelay]
         /\ waits' = [waits EXCEPT ![c] = Append(@, options.retryDelay)]
         /\ UNCHANGED settled

\* the catch block, entered with `error`, up to its first await
FailAttempt(c, error) ==
    /\ lastError' = [lastError EXCEPT ![c] = error]
    /\ outcomes' = [outcomes EXCEPT ![c] = Append(@, [ok |-> FALSE, message |-> error.message])]
    /\ IF ExtendsAfter(attempt[c], options.maxRetries, error.message)
       THEN /\ ExtendEnter(c)
            /\ extendCalls' = [extendCalls EXCEPT ![c] = @ + 1]
            /\ pc' = [pc EXCEPT ![c] = "awaitExtend"]
            /\ UNCHANGED <<settled, delayDeadline, waits>>
       ELSE /\ Conclude(c, error)
            /\ UNCHANGED <<ext, inFlight, isExtending, extendCalls>>

\* a caller invokes executeWithTimeout(operation)
StartCall(c) ==
    /\ pc[c] \in {"idle", "resolved", "rejected"}
    /\ lastError' = [lastError EXCEPT ![c] = NullError]
    /\ outcomes' = [outcomes EXCEPT ![c] = <<>>]
    /\ extendCalls' = [extendCalls EXCEPT ![c] = 0]
    /\ renewThrew' = [renewThrew EXCEPT ![c] = {}]
    /\ waits' = [waits EXCEPT ![c] = <<>>]
    /\ LoopIteration(c, 1, NullError, 0, {})
    /\ UNCHANGED <<now, options, hasSetTimeout, crawlVars, sessionVars, slotVars, cleanedUp, isExtending, autoExtendTimer, nextTick,
                   delayDeadline, ext, extError, inFlight, leaseRenewedAt, lastTick>>

\* the operation's promise resolves before the timer fires
OpResolve(c) ==
    /\ pc[c] = "awaitOp"
    /\ pendingOps' = [pendingOps EXCEPT ![c] = @ \ {invoked[c]}]
    /\ outcomes' = [outcomes EXCEPT ![c] = Append(@, [ok |-> TRUE, message |-> <<>>])]
    /\ LET next == AfterSuccess(attempt[c], options.maxRetries) IN
        /\ pc' = [pc EXCEPT ![c] = next]
        /\ settled' = IF next = "resolved"
                      THEN [settled EXCEPT ![c] = Resolved(OpValue(c, invoked[c]))]
                      ELSE settled
        /\ delayDeadline' = IF next = "resolved" THEN delayDeadline
                            ELSE [delayDeadline EXCEPT ![c] = now]
    /\ opDeadline' = [opDeadline EXCEPT ![c] = 0]
    /\ UNCHANGED <<now, options, hasSetTimeout, crawlVars, sessionVars, slotVars, cleanedUp, waits, lastActivity, isExtending,
                   autoExtendTimer, nextTick, attempt, lastError, ext,
                   extError, inFlight, invoked, extendCalls, renewThrew,
                   leaseRenewedAt, lastTick>>

\* the operation's promise rejects with message m before the timer fires
OpReject(c, m) ==
    /\ pc[c] = "awaitOp"
    /\ pendingOps' = [pendingOps EXCEPT ![c] = @ \ {invoked[c]}]
    /\ FailAttempt(c, Err(m))
    /\ opDeadline' = [opDeadline EXCEPT ![c] = 0]
    /\ UNCHANGED <<now, options, hasSetTimeout, crawlVars, sessionVars, slotVars, cleanedUp, lastActivity, autoExtendTimer, nextTick,
                   attempt, extError, invoked, renewThrew, leaseRenewedAt, lastTick>>

\* setTimeout(() => reject(...), timeoutMs): the timer set for `deadline` has fired
TimedOut_Early(deadline, t) == TRUE
TimedOut(deadline, t) == t >= deadline

\* the timer of withTimeout fires first; the operation stays unsettled
OpTimerFire(c) ==
    /\ pc[c] = "awaitOp"
    /\ TimedOut(opDeadline[c], now)
    /\ \E error \in {Err(TimeoutMessage(options.processTimeout))} : FailAttempt(c, error)
    /\ opDeadline' = [opDeadline EXCEPT ![c] = 0]
    /\ UNCHANGED <<now, options, hasSetTimeout, crawlVars, sessionVars, slotVars, cleanedUp, lastActivity, autoExtendTimer, nextTick,
                   attempt, extError, invoked, pendingOps, renewThrew, leaseRenewedAt,
                   lastTick>>

\* the inline `await this.extendSandboxTimeout()` returns or throws into its
\* try/catch, and the catch block of the attempt runs to its end
ExtendReturn(c) ==
    /\ pc[c] = "awaitExtend"
    /\ ext[c] \in {"skipped", "noop", "ok", "threw"}
    /\ renewThrew' = [renewThrew EXCEPT ![c] = IF ext[c] = "threw" THEN @ \cup {attempt[c]} ELSE @]
    /\ IF SurvivesExtend(ext[c])
       THEN Conclude(c, lastError[c])
       ELSE /\ pc' = [pc EXCEPT ![c] = "rejected"]
            /\ settled' = [settled EXCEPT ![c] = Rejected(extError[c])]
            /\ UNCHANGED <<delayDeadline, waits>>
    /\ ext' = [ext EXCEPT ![c] = "none"]
    /\ extError' = [extError EXCEPT ![c] = NullError]
    /\ UNCHANGED <<now, options, hasSetTimeout, crawlVars, sessionVars, slotVars, cleanedUp, lastActivity, isExtending,
                   autoExtendTimer, nextTick, attempt, lastError, opDeadline,
                   inFlight, invoked, outcomes, pendingOps, extendCalls,
                   leaseRenewedAt, lastTick>>

\* await this.delay(ms): the continuation runs once the timer set for `deadline`
\* has fired
DelayElapsed_NotAwaited(deadline, t) == TRUE
DelayElapsed(deadline, t) == t >= deadline

\* isSandboxActive(), given how the executeWithTimeout call it awaits has settled:
\* try { await this.executeWithTimeout(ping) ; return true } catch { return false }
IsSandboxActive_Rethrows(s) ==
    IF s.kind = "resolved" THEN "true" ELSE IF s.kind = "rejected" THEN "threw" ELSE "pending"
IsSandboxActive(s) ==
    IF s.kind = "resolved" THEN "true" ELSE IF s.kind = "rejected" THEN "false" ELSE "pending"

\* the timer of delay fires: attempt++ and the next pass of the loop
DelayFire(c) ==
    /\ pc[c] = "awaitDelay"
    /\ DelayElapsed(delayDeadline[c], now)
    /\ LoopIteration(c, attempt[c] + 1, lastError[c], invoked[c], pendingOps[c])
    /\ delayDeadline' = [delayDeadline EXCEPT ![c] = 0]
    /\ UNCHANGED <<now, options, hasSetTimeout, crawlVars, sessionVars, slotVars, cleanedUp, waits, isExtending, autoExtendTimer, nextTick,
                   lastError, ext, extError, inFlight, outcomes,
                   extendCalls, renewThrew, leaseRenewedAt, lastTick>>

(***************************************************************************)
(* The auto-extend timer.                                                  *)
(***************************************************************************)
\* the setInterval callback
TimerTick ==
    /\ autoExtendTimer
    /\ now >= nextTick
    /\ nextTick' = nextTick + CheckInterval(options.autoExtendThreshold)
    /\ LET timeSinceLastActivity == now - lastActivity IN
        IF ShouldExtend(timeSinceLastActivity, options.autoExtendThreshold)
        THEN /\ ExtendEnter("tick")
             /\ lastTick' = [elapsed |-> timeSinceLastActivity, extendCalls |-> 1]
        ELSE /\ lastTick' = [elapsed |-> timeSinceLastActivity, extendCalls |-> 0]
             /\ UNCHANGED <<isExtending, inFlight, ext>>
    /\ UNCHANGED <<now, options, hasSetTimeout, crawlVars, sessionVars, slotVars, cleanedUp, waits, lastActivity, autoExtendTimer, pc,
                   attempt, lastError, settled, opDeadline, delayDeadline, extError,
                   invoked, outcomes, pendingOps, extendCalls, renewThrew,
                   leaseRenewedAt>>

\* autoExtendTimer after cleanup(): if (this.autoExtendTimer) { clearInterval(...);
\* this.autoExtendTimer = undefined }
ClearedTimer_KeepsHandle(timer) == timer
ClearedTimer(timer) == IF timer THEN FALSE ELSE timer

\* cleanup()
Cleanup ==
    /\ autoExtendTimer' = ClearedTimer(autoExtendTimer)
    /\ cleanedUp' = TRUE
    /\ UNCHANGED <<now, options, hasSetTimeout, crawlVars, sessionVars, slotVars, waits, lastActivity, isExtending, nextTick, pc,
                   attempt, lastError, settled, opDeadline, delayDeadline, ext, extError,
                   inFlight, invoked, outcomes, pendingOps, extendCalls, renewThrew,
                   leaseRenewedAt, lastTick>>

(***************************************************************************)
(* createTimeoutManager and the global slot.                               *)
(***************************************************************************)
\* the variables of the manager followed in detail
managerVars ==
    <<now, options, hasSetTimeout, lastActivity, isExtending, autoExtendTimer,
      nextTick, pc, attempt, lastError, settled, opDeadline, delayDeadline, ext,
      extError, inFlight, invoked, outcomes, pendingOps, extendCalls, renewThrew,
      leaseRenewedAt, lastTick, waits, cleanedUp>>

\* createTimeoutManager(sandbox, {autoExtendThreshold: threshold}): the constructor
\* starts the interval timer unless the threshold is 0
CreateManager(m, threshold) ==
    /\ m \notin DOMAIN managerTimer
    /\ managerTimer' = (m :> (threshold # 0)) @@ managerTimer
    /\ cleanupCalls' = (m :> 0) @@ cleanupCalls
    /\ timerStarted' = IF threshold # 0 THEN timerStarted \cup {m} ELSE timerStarted
    /\ UNCHANGED <<managerVars, crawlVars, sessionVars, globalTimeoutManager, displaced, directCleanups>>

\* m.cleanup()
CleanupManager(m) ==
    /\ m \in DOMAIN managerTimer
    /\ cleanupCalls[m] < MaxCleanups
    /\ managerTimer' = [managerTimer EXCEPT ![m] = ClearedTimer(@)]
    /\ cleanupCalls' = [cleanupCalls EXCEPT ![m] = @ + 1]
    /\ directCleanups' = directCleanups \cup {m}
    /\ UNCHANGED <<managerVars, crawlVars, sessionVars, globalTimeoutManager, displaced, timerStarted>>

\* if (globalTimeoutManager)
TornDown_Never(current) == FALSE
TornDown(current) == current # NoManager

\* setGlobalTimeoutManager(manager)
SetGlobalTimeoutManager(manager) ==
    /\ manager \in DOMAIN managerTimer \cup {NoManager}
    /\ IF TornDown(globalTimeoutManager)
       THEN /\ cleanupCalls[globalTimeoutManager] < MaxCleanups
            /\ managerTimer' = [managerTimer EXCEPT ![globalTimeoutManager] = ClearedTimer(@)]
            /\ cleanupCalls' = [cleanupCalls EXCEPT ![globalTimeoutManager] = @ + 1]
       ELSE UNCHANGED <<managerTimer, cleanupCalls>>
    /\ globalTimeoutManager' = manager
    /\ displaced' = IF globalTimeoutManager \notin {NoManager, manager}
                    THEN displaced \cup {globalTimeoutManager} ELSE displaced
    /\ UNCHANGED <<managerVars, crawlVars, sessionVars, timerStarted, directCleanups>>

(***************************************************************************)
(* crawlWebsite (lib/context-selector.ts).                                 *)
(*                                                                         *)
(* A URL is a string; the pages of the site, their links and whether a     *)
(* fetch of them succeeds are the environment's.  The links of a page are  *)
(* fixed when the page is first scraped: `site` records them, and a later  *)
(* scrape of the same URL would return the same links.                     *)
(***************************************************************************)
\* the list a page's links are drawn from: filterLinks of extractLinksFromHTML,
\* which returns [...new Set(links)], a list without repetition
NoRepetition(s) == \A i, j \in 1..Len(s) : i # j => s[i] # s[j]
LinkLists == {s \in UNION {[1..n -> Urls] : n \in 0..Cardinality(Urls)} : NoRepetition(s)}

\* options of a crawl
CrawlOptionsSet ==
    [maxPages : 0..MaxPagesBound,
     maxDepth : 0..MaxDepthBound,
     waitBetweenRequests : {0, DefaultWaitBetweenRequests}]

\* while (queue.length > 0 && pages.length < options.maxPages)
HasRoom_Inclusive(n, maxPages) == n <= maxPages
HasRoom(n, maxPages) == n < maxPages

\* if (visited.has(url) || depth > options.maxDepth) continue
Skipped(entry, vis, maxDepth) == entry.url \in vis \/ entry.depth > maxDepth

\* the queue after the iterations that `continue` without awaiting
RECURSIVE DropSkipped(_, _, _)
DropSkipped(q, vis, maxDepth) ==
    IF q = <<>> THEN q
    ELSE IF Skipped(Head(q), vis, maxDepth) THEN DropSkipped(Tail(q), vis, maxDepth)
    ELSE q

\* for (const link of page.links)
\*   if (!visited.has(link) && !queue.some(item => item.url === link)) queue.push(...)
RECURSIVE Enqueue(_, _, _, _)
Enqueue(q, links, vis, depth) ==
    IF links = <<>> THEN q
    ELSE LET link == Head(links)
             queued == \E i \in 1..Len(q) : q[i].url = link
         IN Enqueue(IF link \notin vis /\ ~queued
                    THEN Append(q, [url |-> link, depth |-> depth + 1]) ELSE q,
                    Tail(links), vis, depth)

\* the value crawlWebsite returns
CrawlResult(pgs, errs) == [pages |-> pgs, totalPages |-> Len(pgs), errors |-> errs]

\* the while loop from its condition to the await of crawlSinglePage, or to the
\* return when the condition fails
CrawlLoop(q, vis, pgs, errs, opts) ==
    LET q2 == IF HasRoom(Len(pgs), opts.maxPages)
              THEN DropSkipped(q, vis, opts.maxDepth) ELSE q
    IN IF q2 # <<>> /\ HasRoom(Len(pgs), opts.maxPages)
       THEN /\ shifted' = Head(q2)
            /\ queue' = Tail(q2)
            /\ visited' = vis \cup {Head(q2).url}
            /\ fetches' = [fetches EXCEPT ![Head(q2).url] = @ + 1]
            /\ crawlPc' = "awaitFetch"
            /\ UNCHANGED crawlResult
       ELSE /\ queue' = q2
            /\ visited' = vis
            /\ crawlPc' = "returned"
            /\ crawlResult' = CrawlResult(pgs, errs)
            /\ UNCHANGED <<shifted, fetches>>

\* the end of an iteration: the wait between requests, or the next iteration
AfterPage(q, pgs, errs) ==
    IF crawlOptions.waitBetweenRequests # 0 /\ q # <<>>
    THEN /\ crawlPc' = "awaitWait"
         /\ queue' = q
         /\ UNCHANGED <<visited, shifted, fetches, crawlResult>>
    ELSE CrawlLoop(q, visited, pgs, errs, crawlOptions)

\* crawlWebsite(startUrl, opts), with or without FIRECRAWL_API_KEY in the environment
CrawlWebsite(startUrl, opts, hasKey) ==
    /\ crawlPc = "idle"
    /\ IF hasKey
       THEN /\ crawlOptions' = opts
            /\ CrawlLoop(<<[url |-> startUrl, depth |-> 0]>>, {}, <<>>, <<>>, opts)
       ELSE /\ crawlPc' = "threw"
            /\ UNCHANGED <<crawlOptions, queue, visited, shifted, fetches, crawlResult>>
    /\ UNCHANGED <<managerVars, slotVars, sessionVars, site, pages, errors>>

\* crawlSinglePage resolves with a page whose links are `links`
FetchPage(links) ==
    /\ crawlPc = "awaitFetch"
    /\ shifted.url \in DOMAIN site => links = site[shifted.url]
    /\ site' = IF shifted.url \in DOMAIN site THEN site ELSE (shifted.url :> links) @@ site
    /\ LET page == [url |-> shifted.url, links |-> links, depth |-> shifted.depth]
           pgs == Append(pages, page)
           q == IF shifted.depth < crawlOptions.maxDepth
                THEN Enqueue(queue, links, visited, shifted.depth) ELSE queue
       IN /\ pages' = pgs
          /\ AfterPage(q, pgs, errors)
    /\ UNCHANGED <<managerVars, slotVars, sessionVars, crawlOptions, errors>>

\* crawlSinglePage resolves with null: the request failed
FetchFails ==
    /\ crawlPc = "awaitFetch"
    /\ errors' = Append(errors, shifted.url)
    /\ AfterPage(queue, pages, errors')
    /\ UNCHANGED <<managerVars, slotVars, sessionVars, crawlOptions, site, pages>>

\* the wait between requests ends
WaitElapsed ==
    /\ crawlPc = "awaitWait"
    /\ CrawlLoop(queue, visited, pages, errors, crawlOptions)
    /\ UNCHANGED <<managerVars, slotVars, sessionVars, crawlOptions, site, pages, errors>>

(***************************************************************************)
(* SessionManager (lib/session-manager.ts).                                *)
(*                                                                         *)
(* Session ids are 1, 2, ... in the order db.createSession resolves; 0 is  *)
(* null.  No session is ended here, so every session created is active.   *)
(***************************************************************************)
\* if (session && session.status === 'active')
StillActive(id) == id \in 1..sessionsCreated

\* what a method does with the session id getCurrentSession returned
AfterGetCurrentSession(g, id) ==
    /\ sessionOf' = [sessionOf EXCEPT ![g] = id]
    /\ sessionPc' = [sessionPc EXCEPT ![g] =
            IF method[g] = "getCurrentSession" THEN "returned" ELSE "awaitInsert"]

\* caller g invokes `m`, which begins with getCurrentSession, up to its first await
CallMethod(g, m) ==
    /\ sessionPc[g] = "idle"
    /\ method' = [method EXCEPT ![g] = m]
    /\ IF currentSessionId # NoSession
       THEN /\ sessionPc' = [sessionPc EXCEPT ![g] = "awaitGetSession"]
            /\ verifying' = [verifying EXCEPT ![g] = currentSessionId]
       ELSE /\ sessionPc' = [sessionPc EXCEPT ![g] = "awaitCreateSession"]
            /\ UNCHANGED verifying
    /\ UNCHANGED <<managerVars, slotVars, crawlVars, currentSessionId, sessionsCreated,
                   sessionOf>>

\* db.getSession resolves
GetSessionResolve(g) ==
    /\ sessionPc[g] = "awaitGetSession"
    /\ IF StillActive(verifying[g])
       THEN AfterGetCurrentSession(g, currentSessionId)
       ELSE /\ sessionPc' = [sessionPc EXCEPT ![g] = "awaitCreateSession"]
            /\ UNCHANGED sessionOf
    /\ UNCHANGED <<managerVars, slotVars, crawlVars, currentSessionId, sessionsCreated,
                   method, verifying>>

\* db.createSession resolves with a new session
CreateSessionResolve(g) ==
    /\ sessionPc[g] = "awaitCreateSession"
    /\ sessionsCreated' = sessionsCreated + 1
    /\ currentSessionId' = sessionsCreated'
    /\ AfterGetCurrentSession(g, sessionsCreated')
    /\ UNCHANGED <<managerVars, slotVars, crawlVars, method, verifying>>

\* db.createSession throws
CreateSessionReject(g) ==
    /\ sessionPc[g] = "awaitCreateSession"
    /\ sessionPc' = [sessionPc EXCEPT ![g] = "threw"]
    /\ UNCHANGED <<managerVars, slotVars, crawlVars, currentSessionId, sessionsCreated,
                   method, verifying, sessionOf>>

\* db.createMessage / createJob / createSandbox / createCheckpoint resolves
InsertResolve(g) ==
    /\ sessionPc[g] = "awaitInsert"
    /\ sessionPc' = [sessionPc EXCEPT ![g] = "returned"]
    /\ UNCHANGED <<managerVars, slotVars, crawlVars, currentSessionId, sessionsCreated,
                   method, verifying, sessionOf>>

(***************************************************************************)
(* Time.                                                                   *)
(***************************************************************************)
\* the deadlines of the timers the executeWithTimeout calls wait on
CallDeadlines ==
    {opDeadline[c] : c \in {x \in Calls : pc[x] = "awaitOp"}}
        \cup {delayDeadline[c] : c \in {x \in Calls : pc[x] = "awaitDelay"}}

TimerDeadlines == CallDeadlines \cup (IF autoExtendTimer THEN {nextTick} ELSE {})

\* a continuation that is ready to run: it runs before any timer does
ReadyContinuation ==
    \E c \in Calls : pc[c] = "awaitExtend" /\ ext[c] # "pending"

\* the clock moves on by at most `step`, to no later than the next timer that is
\* due: a due timer fires before more time passes.  Past `horizon` the clock moves
\* only for the timers of the calls still running.
Advance(step, horizon) ==
    /\ ~ReadyContinuation
    /\ \A d \in TimerDeadlines : now < d
    /\ now < horizon \/ CallDeadlines # {}
    /\ now' = Min({now + step} \cup TimerDeadlines)
    /\ UNCHANGED <<options, hasSetTimeout, crawlVars, sessionVars, slotVars, cleanedUp, waits, lastActivity, isExtending, autoExtendTimer,
                   nextTick, pc, attempt, lastError, settled, opDeadline, delayDeadline,
                   ext, extError, inFlight, invoked, outcomes, pendingOps, extendCalls,
                   renewThrew, leaseRenewedAt, lastTick>>

Horizon == MaxTime * Quantum

\* one manager: a caller's retry loop with its inline extensions, an extension
\* requested from outside, the interval timer, and cleanup
Next ==
    \/ Advance(Quantum, Horizon)
    \/ now < Horizon /\ pc["c1"] = "idle" /\ StartCall("c1")
    \/ \E c \in Calls : OpResolve(c)
    \/ \E c \in Calls : \E m \in OpErrorMessages : OpReject(c, m)
    \/ \E c \in Calls : OpTimerFire(c)
    \/ \E c \in Calls : ExtendReturn(c)
    \/ \E c \in Calls : DelayFire(c)
    \/ \E o \in Owners : RenewResolve(o)
    \/ \E o \in Owners : \E m \in RenewErrorMessages : RenewReject(o, m)
    \/ ext["direct"] = "none" /\ DirectExtend
    \/ TimerTick
    \/ autoExtendTimer /\ Cleanup

Spec == Init /\ [][Next]_vars

\* the timers of the event loop fire when due, ready continuations run and the
\* clock moves on; nothing obliges the operation or the sandbox to ever settle
Fairness ==
    /\ WF_vars(Advance(Quantum, Horizon))
    /\ WF_vars(TimerTick)
    /\ \A c \in Calls :
        /\ WF_vars(OpTimerFire(c))
        /\ WF_vars(DelayFire(c))
        /\ WF_vars(ExtendReturn(c))

FairSpec == Spec /\ Fairness

\* two callers with a single attempt each, an extension requested from outside and
\* the interval timer: every kind of caller of extendSandboxTimeout at once
RenewConfigs ==
    [maxRetries : {1},
     retryDelay : {DefaultRetryDelay},
     processTimeout : {DefaultProcessTimeout},
     autoExtendThreshold : {1}]

InitRenew == Construct(RenewConfigs)

NextRenew ==
    \/ Advance(Quantum, Horizon)
    \/ \E c \in Calls : now < Horizon /\ pc[c] = "idle" /\ StartCall(c)
    \/ \E c \in Calls : OpResolve(c)
    \/ \E c \in Calls : \E m \in OpErrorMessages : OpReject(c, m)
    \/ \E c \in Calls : OpTimerFire(c)
    \/ \E c \in Calls : ExtendReturn(c)
    \/ \E o \in Owners : RenewResolve(o)
    \/ \E o \in Owners : \E m \in RenewErrorMessages : RenewReject(o, m)
    \/ ext["direct"] = "none" /\ DirectExtend
    \/ TimerTick

RenewSpec == InitRenew /\ [][NextRenew]_vars

\* the interval timer with a threshold of one minute and with the default one, a
\* sandbox whose setTimeout succeeds, and a caller who issues one call after another
TimerConfigs ==
    [maxRetries : {1},
     retryDelay : {DefaultRetryDelay},
     processTimeout : {DefaultProcessTimeout},
     autoExtendThreshold : {1, DefaultAutoExtendThreshold}]

InitTimer == Construct(TimerConfigs) /\ hasSetTimeout

\* long enough for the callbacks that follow a full threshold window
TimerHorizon == (DefaultAutoExtendThreshold + MaxTime) * MaxCheckInterval

NextTimer ==
    \/ Advance(MaxCheckInterval, TimerHorizon)
    \/ now < TimerHorizon /\ StartCall("c1")
    \/ OpResolve("c1")
    \/ OpTimerFire("c1")
    \/ RenewResolve("tick")
    \/ TimerTick

TimerSpec == InitTimer /\ [][NextTimer]_vars

\* the default configuration over a whole lease: the interval timer, a sandbox
\* whose setTimeout succeeds, and a caller whose operations resolve at once
LeaseConfigs ==
    [maxRetries : {1},
     retryDelay : {DefaultRetryDelay},
     processTimeout : {DefaultProcessTimeout},
     autoExtendThreshold : {DefaultAutoExtendThreshold}]

InitLease == Construct(LeaseConfigs) /\ hasSetTimeout

LeaseHorizon == LeaseMs + MaxCheckInterval

NextLease ==
    \/ pc["c1"] # "awaitOp" /\ Advance(MaxCheckInterval, LeaseHorizon)
    \/ now < LeaseHorizon /\ StartCall("c1")
    \/ OpResolve("c1")
    \/ RenewResolve("tick")
    \/ TimerTick

LeaseSpec == InitLease /\ [][NextLease]_vars

\* one call with a single attempt whose operation rejects with messages in every
\* letter case, with and without the keywords, or is ended by the timer
RequestTimeout == <<"R", "e", "q", "u", "e", "s", "t", " ", "T", "I", "M", "E", "O", "U", "T">>
SandboxNotFound == <<"S", "a", "n", "d", "b", "o", "x", " ", "N", "o", "t", " ", "F", "o", "u", "n", "d">>
SessionExpired == <<"s", "e", "s", "s", "i", "o", "n", " ", "E", "x", "p", "i", "r", "e", "d">>
Terminated == <<"T", "E", "R", "M", "I", "N", "A", "T", "E", "D">>
ConnectionRefused == <<"c", "o", "n", "n", "e", "c", "t", "i", "o", "n", " ", "r", "e", "f", "u", "s", "e", "d">>
ClassifyErrorMessages ==
    OpErrorMessages
        \cup {RequestTimeout, SandboxNotFound, SessionExpired, Terminated, ConnectionRefused}

ClassifyConfigs ==
    [maxRetries : {1},
     retryDelay : {DefaultRetryDelay},
     processTimeout : {DefaultProcessTimeout},
     autoExtendThreshold : {0}]

InitClassify == Construct(ClassifyConfigs)

NextClassify ==
    \/ Advance(Quantum, Horizon)
    \/ now < Horizon /\ StartCall("c1")
    \/ \E m \in ClassifyErrorMessages : OpReject("c1", m)
    \/ OpTimerFire("c1")
    \/ ExtendReturn("c1")
    \/ RenewResolve("c1")

ClassifySpec == InitClassify /\ [][NextClassify]_vars

\* the constructor given options of every sign: it merges them into the defaults
\* and checks none of them
AnyConfigs ==
    [maxRetries : {0 - 1, 0, 1},
     retryDelay : {DefaultRetryDelay},
     processTimeout : {0 - 1, DefaultProcessTimeout},
     autoExtendThreshold : {0, 1}]

InitAny == Construct(AnyConfigs)

NextAny ==
    \/ Advance(Quantum, Horizon)
    \/ now < Horizon /\ pc["c1"] = "idle" /\ StartCall("c1")
    \/ OpResolve("c1")
    \/ \E m \in OpErrorMessages : OpReject("c1", m)
    \/ OpTimerFire("c1")
    \/ ExtendReturn("c1")
    \/ \E o \in {"c1", "tick"} : RenewResolve(o)
    \/ TimerTick

AnySpec == InitAny /\ [][NextAny]_vars

\* one call under the default options, three attempts with a delay after each of
\* the first two
BackoffConfigs ==
    [maxRetries : {DefaultMaxRetries},
     retryDelay : {DefaultRetryDelay},
     processTimeout : {DefaultProcessTimeout},
     autoExtendThreshold : {0}]

InitBackoff == Construct(BackoffConfigs)

NextBackoff ==
    \/ Advance(Quantum, Horizon)
    \/ now < Horizon /\ pc["c1"] = "idle" /\ StartCall("c1")
    \/ OpResolve("c1")
    \/ \E m \in OpErrorMessages : OpReject("c1", m)
    \/ OpTimerFire("c1")
    \/ ExtendReturn("c1")
    \/ RenewResolve("c1")
    \/ DelayFire("c1")

BackoffSpec == InitBackoff /\ [][NextBackoff]_vars

\* the interval timer alone, with a sandbox whose setTimeout may throw, and cleanup
TickConfigs ==
    [maxRetries : {1},
     retryDelay : {DefaultRetryDelay},
     processTimeout : {DefaultProcessTimeout},
     autoExtendThreshold : {1}]

InitTick == Construct(TickConfigs)

NextTick ==
    \/ Advance(Quantum, TimerHorizon)
    \/ TimerTick
    \/ RenewResolve("tick")
    \/ \E m \in RenewErrorMessages : RenewReject("tick", m)
    \/ autoExtendTimer /\ Cleanup

TickSpec == InitTick /\ [][NextTick]_vars

\* two callers with two attempts each on one manager, without the interval timer
ConcurrentConfigs ==
    [maxRetries : {2},
     retryDelay : {DefaultRetryDelay},
     processTimeout : {DefaultProcessTimeout},
     autoExtendThreshold : {0}]

InitConcurrent == Construct(ConcurrentConfigs)

NextConcurrent ==
    \/ Advance(Quantum, Horizon)
    \/ \E c \in Calls : now < Horizon /\ pc[c] = "idle" /\ StartCall(c)
    \/ \E c \in Calls : OpResolve(c)
    \/ \E c \in Calls : \E m \in OpErrorMessages : OpReject(c, m)
    \/ \E c \in Calls : OpTimerFire(c)
    \/ \E c \in Calls : ExtendReturn(c)
    \/ \E c \in Calls : DelayFire(c)
    \/ \E c \in Calls : RenewResolve(c)

ConcurrentSpec == InitConcurrent /\ [][NextConcurrent]_vars

\* managers are created with and without a timer, installed in the global slot,
\* replaced, removed and cleaned up
SlotConfigs ==
    [maxRetries : {1},
     retryDelay : {DefaultRetryDelay},
     processTimeout : {DefaultProcessTimeout},
     autoExtendThreshold : {0}]

InitSlot == Construct(SlotConfigs) /\ hasSetTimeout

NextSlot ==
    \/ \E m \in Managers : \E threshold \in {0, DefaultAutoExtendThreshold} :
          CreateManager(m, threshold)
    \/ \E m \in Managers : CleanupManager(m)
    \/ \E manager \in Managers \cup {NoManager} : SetGlobalTimeoutManager(manager)

SlotSpec == InitSlot /\ [][NextSlot]_vars

\* one crawl from any start page, every scrape succeeding or failing
InitCrawl == Construct(SlotConfigs) /\ hasSetTimeout

NextCrawl ==
    \/ \E startUrl \in Urls : \E opts \in CrawlOptionsSet : \E hasKey \in BOOLEAN :
          CrawlWebsite(startUrl, opts, hasKey)
    \/ \E links \in LinkLists : FetchPage(links)
    \/ FetchFails
    \/ WaitElapsed

\* every scrape request settles and every wait ends
CrawlFairness == WF_vars((\E links \in LinkLists : FetchPage(links)) \/ FetchFails \/ WaitElapsed)

CrawlSpec == InitCrawl /\ [][NextCrawl]_vars /\ CrawlFairness

\* callers of the singleton sessionManager, each invoking one method once
InitSession == Construct(SlotConfigs) /\ hasSetTimeout

NextSession ==
    \/ \E g \in SessionCallers : \E m \in SessionMethods : CallMethod(g, m)
    \/ \E g \in SessionCallers : GetSessionResolve(g)
    \/ \E g \in SessionCallers : CreateSessionResolve(g)
    \/ \E g \in SessionCallers : CreateSessionReject(g)
    \/ \E g \in SessionCallers : InsertResolve(g)

SessionSpec == InitSession /\ [][NextSession]_vars

(***************************************************************************)
(* Properties.                                                             *)
(***************************************************************************)
AllFailed(c) == \A i \in 1..Len(outcomes[c]) : ~outcomes[c][i].ok

\* C1: with maxRetries >= 1 a call never invokes its operation more than maxRetries
\* times, rejects only when exactly maxRetries invocations were made and each of
\* them failed, and once maxRetries attempts have failed it makes no further attempt.
C1_RetryBound ==
    \A c \in Calls :
        options.maxRetries >= 1 =>
            /\ invoked[c] <= options.maxRetries
            /\ settled[c].kind = "rejected" =>
                /\ invoked[c] = options.maxRetries
                /\ Len(outcomes[c]) = options.maxRetries
                /\ AllFailed(c)
            /\ (Len(outcomes[c]) = options.maxRetries /\ AllFailed(c)) =>
                pc[c] \in {"awaitExtend", "rejected"}

C1_Witness ==
    \E c \in Calls :
        /\ settled[c].kind = "rejected"
        /\ options.maxRetries = 2
        /\ invoked[c] = 2
        /\ AllFailed(c)

\* C2: a call is resolved exactly when its latest invocation succeeded; then every
\* earlier invocation failed, there were fewer than maxRetries of them, the call
\* carries the value of that last invocation, and no invocation follows it.
C2_EarlySuccess ==
    \A c \in Calls :
        LET n == Len(outcomes[c]) IN
        /\ settled[c].kind = "resolved" <=> (n > 0 /\ outcomes[c][n].ok)
        /\ settled[c].kind = "resolved" =>
            /\ pc[c] = "resolved"
            /\ \A i \in 1..(n - 1) : ~outcomes[c][i].ok
            /\ n - 1 < options.maxRetries
            /\ invoked[c] = n
            /\ settled[c].value = OpValue(c, n)

C2_Witness ==
    \E c \in Calls :
        /\ settled[c].kind = "resolved"
        /\ Len(outcomes[c]) = 2
        /\ ~outcomes[c][1].ok
        /\ settled[c].value = OpValue(c, 2)

\* C7: a call in which an inline extension threw still makes all maxRetries
\* attempts, and when it rejects, the rejection names the error of the last
\* attempt of the operation, not the error of the extension.
C7_RenewalFailureSwallowed ==
    \A c \in Calls :
        (renewThrew[c] # {} /\ settled[c].kind = "rejected") =>
            /\ Len(outcomes[c]) = options.maxRetries
            /\ invoked[c] = options.maxRetries
            /\ settled[c].error.message =
                  FailureMessage(DefaultOperationName, options.maxRetries,
                                 outcomes[c][options.maxRetries].message)
            /\ settled[c].error.message \notin RenewErrorMessages

C7_Witness ==
    \E c \in Calls :
        /\ 1 \in renewThrew[c]
        /\ settled[c].kind = "rejected"
        /\ Len(outcomes[c]) = 2

\* C8: when every attempt of a call failed with "Error: 502 Bad Gateway", the
\* inline extension was entered once per failed attempt, so maxRetries times when
\* the call rejects; the rejection message contains "after <maxRetries> attempts"
\* and the message of the last error; and without sandbox.setTimeout none of the
\* extensions called the sandbox or left isExtending set.
C8_RenewalPerFailedAttempt ==
    \A c \in Calls :
        (\A i \in 1..Len(outcomes[c]) : outcomes[c][i].message = BadGateway) =>
            /\ pc[c] # "awaitExtend" => extendCalls[c] = Len(outcomes[c])
            /\ settled[c].kind = "rejected" /\ options.maxRetries >= 1 =>
                /\ extendCalls[c] = options.maxRetries
                /\ Includes(settled[c].error.message,
                            <<"a", "f", "t", "e", "r", " ">> \o NumToStr(options.maxRetries)
                                \o <<" ", "a", "t", "t", "e", "m", "p", "t", "s">>)
                /\ Includes(settled[c].error.message, BadGateway)
            /\ ~hasSetTimeout =>
                /\ \A o \in Owners : inFlight[o] = 0
                /\ ~isExtending
                /\ leaseRenewedAt = 0

C8_Witness ==
    \E c \in Calls :
        /\ settled[c].kind = "rejected"
        /\ options.maxRetries = 2
        /\ ~hasSetTimeout
        /\ extendCalls[c] = 2
        /\ outcomes[c] = <<[ok |-> FALSE, message |-> BadGateway],
                           [ok |-> FALSE, message |-> BadGateway]>>

Running(c) == pc[c] \in {"awaitOp", "awaitExtend", "awaitDelay"}

\* C3: every executeWithTimeout call that has started eventually resolves or
\* rejects, whatever the operation and the sandbox do.
C3_EveryCallSettles ==
    \A c \in Calls : Running(c) ~> settled[c].kind # "none"

TotalInFlight == inFlight["c1"] + inFlight["c2"] + inFlight["tick"] + inFlight["direct"]

\* C5: at most one sandbox.setTimeout call is in flight at any time, and no step
\* taken while isExtending is set issues one.
C5_SingleRenewalInFlight ==
    /\ [](TotalInFlight <= 1)
    /\ [][isExtending => \A o \in Owners : inFlight'[o] <= inFlight[o]]_vars

\* an inline extension found the flag set by another caller and returned at once
C5_Witness ==
    \E c \in Calls :
        /\ pc[c] = "awaitExtend"
        /\ ext[c] = "skipped"
        /\ inFlight[c] = 0
        /\ TotalInFlight = 1

\* C6: isExtending is set exactly while a sandbox.setTimeout call is in flight: every
\* exit of extendSandboxTimeout that had set it (the call resolved, the call threw,
\* setTimeout is absent) has cleared it.
C6_FlagOnlyWhilePending ==
    /\ isExtending <=> TotalInFlight > 0
    /\ \A o \in Owners : ext[o] \in {"noop", "ok", "threw"} => inFlight[o] = 0

\* an extension whose sandbox.setTimeout threw has released the flag
C6_Witness ==
    \E o \in Owners : ext[o] = "threw" /\ ~isExtending

\* C4: while the interval timer runs, sandbox.setTimeout is present and no call of
\* it is outstanding, less than the lease duration has passed since the lease was
\* last extended (or the manager was constructed).
C4_LeaseExtendedBeforeExpiry ==
    (autoExtendTimer /\ hasSetTimeout /\ TotalInFlight = 0) =>
        now - leaseRenewedAt < LeaseMs

\* C9: an interval callback calls extendSandboxTimeout once when the time since the
\* last activity exceeds 0.8 x thresholdMs, and not at all otherwise.
C9_TickRenewsPastEightyPercent ==
    lastTick.extendCalls =
        IF lastTick.elapsed * 10 > options.autoExtendThreshold * 60000 * 8 THEN 1 ELSE 0

\* threshold 5 minutes, 270 s without activity: the callback extended once
C9_Witness ==
    /\ options.autoExtendThreshold = 5
    /\ lastTick.elapsed = 270000
    /\ lastTick.extendCalls = 1

\* C10: the first interval callback after the last activity that calls
\* extendSandboxTimeout (the callback one period earlier was not yet past
\* 0.8 x thresholdMs) runs before the threshold window has fully elapsed.
C10_RenewsBeforeThreshold ==
    (/\ lastTick.extendCalls = 1
     /\ (lastTick.elapsed - CheckInterval(options.autoExtendThreshold)) * 10
            <= options.autoExtendThreshold * 60000 * 8) =>
        lastTick.elapsed < options.autoExtendThreshold * 60000

\* the attempts of call c that failed with a message whose lower-case form
\* contains one of the five keywords
KeywordFailures(c) ==
    {i \in 1..Len(outcomes[c]) :
        /\ ~outcomes[c][i].ok
        /\ \E k \in {<<"t", "i", "m", "e", "o", "u", "t">>, <<"5", "0", "2">>, <<"n", "o", "t", " ", "f", "o", "u", "n", "d">>, <<"e", "x", "p", "i", "r", "e", "d">>, <<"t", "e", "r", "m", "i", "n", "a", "t", "e", "d">>} :
              Includes(ToLowerCase(outcomes[c][i].message), k)}

\* C11: a failed attempt is classified timeout-like (the inline extension is
\* entered for it) exactly when its lower-cased message contains "timeout", "502",
\* "not found", "expired" or "terminated"; and the failure raised by the timer of
\* withTimeout, "Operation timed out after <n>ms", is classified timeout-like.
C11_Classification ==
    \A c \in Calls :
        /\ extendCalls[c] = Cardinality(KeywordFailures(c))
        /\ \A i \in 1..Len(outcomes[c]) :
              outcomes[c][i].message = TimeoutMessage(options.processTimeout) =>
                  i \in KeywordFailures(c)

\* C12: a cleanup() call leaves the manager without a timer, whether or not a
\* timer was ever started, and a cleanup() call on a manager that was cleaned up
\* before changes nothing of it.
C12_CleanupIdempotent ==
    [][\A m \in DOMAIN cleanupCalls :
          cleanupCalls'[m] > cleanupCalls[m] =>
              /\ ~managerTimer'[m]
              /\ cleanupCalls[m] >= 1 => managerTimer'[m] = managerTimer[m]]_vars

\* cleanup() was called twice on a manager
C12_Witness ==
    \E m \in DOMAIN cleanupCalls : cleanupCalls[m] = 2 /\ ~managerTimer[m]

\* C18: the slot holds one manager or none, and every manager the slot held and
\* no longer holds had cleanup() called on it and has no timer.
C18_SlotDiscipline ==
    /\ globalTimeoutManager \in DOMAIN managerTimer \cup {NoManager}
    /\ \A m \in displaced :
          /\ cleanupCalls[m] >= 1
          /\ ~managerTimer[m]

\* a manager was replaced by another one, and a manager was replaced by null
C18_Witness ==
    /\ globalTimeoutManager = NoManager
    /\ Cardinality(displaced) = 2

\* C13: with maxRetries = 0 a call never invokes its operation, and once started
\* it has rejected.
C13_ZeroRetriesRejects ==
    \A c \in Calls :
        options.maxRetries = 0 =>
            /\ invoked[c] = 0
            /\ pendingOps[c] = {}
            /\ pc[c] \in {"idle", "rejected"}
            /\ pc[c] = "rejected" => settled[c].kind = "rejected"

C13_Witness ==
    /\ options.maxRetries = 0
    /\ settled["c1"].kind = "rejected"
    /\ settled["c1"].error = NullError

\* C14: no manager exists whose maxRetries is below 1 or whose processTimeout or
\* retryDelay is negative, so none has its interval timer running or takes calls.
C14_ConfigurationChecked ==
    /\ options.maxRetries >= 1
    /\ options.processTimeout >= 0
    /\ options.retryDelay >= 0

\* C15: a call invokes its operation again only from the delay that followed the
\* failure of its previous invocation and only once the timer of that delay is due;
\* and that delay is started, for retryDelay from then, only when the latest
\* invocation has been seen to fail.
C15_SequentialAttempts ==
    [][\A c \in Calls :
          /\ (invoked[c] >= 1 /\ invoked'[c] = invoked[c] + 1) =>
                /\ pc[c] = "awaitDelay"
                /\ now >= delayDeadline[c]
                /\ Len(outcomes[c]) = invoked[c]
                /\ ~outcomes[c][invoked[c]].ok
          /\ (pc[c] # "awaitDelay" /\ pc'[c] = "awaitDelay") =>
                /\ delayDeadline'[c] = now + options.retryDelay
                /\ Len(outcomes'[c]) = invoked[c]
                /\ ~outcomes'[c][invoked[c]].ok]_vars

\* the second invocation of a call is under way, the retry delay after the first
C15_Witness ==
    /\ pc["c1"] = "awaitOp"
    /\ invoked["c1"] = 2
    /\ lastActivity = now
    /\ now >= options.retryDelay

\* C16: no call ever has two invocations of its operation unsettled.
C16_NoOverlap ==
    \A c \in Calls : Cardinality(pendingOps[c]) <= 1

\* C16, amended: of the unsettled invocations of a call only the latest is awaited;
\* every other one belongs to an attempt that the timer of withTimeout ended, and
\* an attempt is left with its invocation unsettled only when that timer was due.
C16_OnlyAbandonedOverlap ==
    /\ [](\A c \in Calls : \A k \in pendingOps[c] :
            \/ k = invoked[c] /\ pc[c] = "awaitOp"
            \/ /\ k <= Len(outcomes[c])
               /\ ~outcomes[c][k].ok
               /\ outcomes[c][k].message = TimeoutMessage(options.processTimeout))
    /\ [][\A c \in Calls :
            (pc[c] = "awaitOp" /\ pc'[c] # "awaitOp" /\ invoked[c] \in pendingOps'[c]) =>
                now >= opDeadline[c]]_vars

\* the second invocation is awaited while the first, timed out, is still unsettled
C16_Witness ==
    /\ pc["c1"] = "awaitOp"
    /\ pendingOps["c1"] = {1, 2}

\* C17: every sandbox.setTimeout call issued by extendSandboxTimeout, whoever
\* called it, stops being awaited within bounded time, and isExtending, once set,
\* is eventually cleared again, even when the sandbox never answers.
C17_HandleCallsBounded ==
    /\ \A o \in Owners : (inFlight[o] > 0) ~> (inFlight[o] = 0)
    /\ isExtending ~> ~isExtending

\* C19: isSandboxActive, whose ping is the operation of call c, never throws; it
\* returns true exactly when the latest ping succeeded, which takes fewer than
\* maxRetries failed pings before it; and it returns false only when maxRetries
\* pings were made and all of them failed.
C19_HealthCheck ==
    \A c \in Calls :
        LET r == IsSandboxActive(settled[c])
            n == Len(outcomes[c]) IN
        /\ r \in {"pending", "true", "false"}
        /\ r = "true" <=> (n > 0 /\ outcomes[c][n].ok)
        /\ r = "true" => (n - 1 < options.maxRetries /\ \A i \in 1..(n - 1) : ~outcomes[c][i].ok)
        /\ r = "false" => (n = options.maxRetries /\ invoked[c] = n /\ AllFailed(c))

\* the ping failed once and then succeeded: true
C19_Witness ==
    /\ IsSandboxActive(settled["c1"]) = "true"
    /\ Len(outcomes["c1"]) = 2
    /\ ~outcomes["c1"][1].ok

\* C20: each delay a call waits before retrying is longer than the delay before it.
C20_ExponentialBackoff ==
    \A c \in Calls :
        \A k \in 2..Len(waits[c]) : waits[c][k] > waits[c][k - 1]

\* a step in which an operation of call c resolves
OperationSucceeds(c) ==
    /\ Len(outcomes'[c]) = Len(outcomes[c]) + 1
    /\ outcomes'[c][Len(outcomes'[c])].ok

\* a step in which a sandbox.setTimeout call resolves
RenewalSucceeds ==
    /\ \E o \in Owners : inFlight'[o] < inFlight[o]
    /\ leaseRenewedAt' = now

\* C21: lastActivity is written only by a step in which an operation or an
\* extension completes successfully, and every such step stamps it with the time
\* of that step; a failed or timed-out attempt leaves it as it was.
C21_ActivityTracksSuccess ==
    [][/\ lastActivity' # lastActivity =>
             (RenewalSucceeds \/ \E c \in Calls : OperationSucceeds(c))
       /\ (RenewalSucceeds \/ \E c \in Calls : OperationSucceeds(c)) =>
             lastActivity' = now]_vars

\* C22: the step in which the sandbox.setTimeout call of an interval callback
\* settles, by throwing or not, leaves the timer set and its next firing scheduled
\* and lets no error out of the callback; and the timer is unset only by a step
\* that settles no extension (cleanup).
C22_TickFailureKeepsTimer ==
    /\ [][inFlight'["tick"] < inFlight["tick"] =>
            /\ autoExtendTimer' = autoExtendTimer
            /\ nextTick' = nextTick
            /\ ext'["tick"] = "none"
            /\ extError'["tick"] = NullError]_vars
    /\ [][(autoExtendTimer /\ ~autoExtendTimer') => UNCHANGED <<inFlight, ext, isExtending>>]_vars

\* no extension ever succeeded, the callbacks at 60 s and at 90 s both tried, and
\* nothing is pending: the first one threw and the timer went on
C22_Witness ==
    /\ autoExtendTimer
    /\ hasSetTimeout
    /\ leaseRenewedAt = 0
    /\ lastTick = [elapsed |-> 90000, extendCalls |-> 1]
    /\ inFlight["tick"] = 0
    /\ ~isExtending

\* C23: when the extend_timeout request has been answered with success: true, the
\* extendSandboxTimeout call made for it called sandbox.setTimeout and that call
\* completed without error.
C23_SuccessMeansExtended ==
    ExtendTimeoutResponse(ext["direct"]).success => ext["direct"] = "ok"

\* C24: a step of a call enters the inline extension exactly when it is the step
\* in which an attempt fails with a message whose lower-case form contains one of
\* the keywords; an attempt that succeeds, or fails with another message, enters
\* none, and a call has a sandbox.setTimeout call in flight only inside that path.
C24_RenewalIffTimeoutLike ==
    /\ [][\A c \in Calls :
            extendCalls'[c] = extendCalls[c] + 1 <=>
                /\ Len(outcomes'[c]) = Len(outcomes[c]) + 1
                /\ Len(outcomes'[c]) \in KeywordFailures(c)']_vars
    /\ [](\A c \in Calls : inFlight[c] > 0 => pc[c] = "awaitExtend")

\* the first attempt failed with "invalid syntax" and entered no extension, the
\* second failed with "Error: 502 Bad Gateway" and entered one
C24_Witness ==
    /\ Len(outcomes["c1"]) = 2
    /\ outcomes["c1"][1].message = InvalidSyntax
    /\ outcomes["c1"][2].message = BadGateway
    /\ extendCalls["c1"] = 1

\* a step in which some call starts an attempt of its operation
AttemptStarts ==
    \E c \in Calls :
        \/ invoked'[c] = invoked[c] + 1
        \/ pc[c] \in {"idle", "resolved", "rejected"} /\ pc'[c] = "awaitOp"

\* C25: with two calls interleaving on one manager, each call's attempt counter
\* counts its own invocations, never more than maxRetries; a call resolves with
\* the value of its own latest invocation and rejects with the message built from
\* its own last error after maxRetries failures of its own; a step changes the
\* loop state of at most one call; and lastActivity is written exactly by the
\* steps that start an attempt or complete a renewal, with the time of that step.
C25_CallsAreIndependent ==
    /\ [](\A c \in Calls :
            LET n == Len(outcomes[c]) IN
            /\ invoked[c] <= options.maxRetries
            /\ Running(c) => (attempt[c] = invoked[c] /\ n \in {invoked[c] - 1, invoked[c]})
            /\ settled[c].kind = "resolved" =>
                  (n = invoked[c] /\ outcomes[c][n].ok /\ settled[c].value = <<c, n>>)
            /\ settled[c].kind = "rejected" =>
                  /\ n = options.maxRetries
                  /\ AllFailed(c)
                  /\ settled[c].error.message =
                        FailureMessage(DefaultOperationName, options.maxRetries,
                                       outcomes[c][n].message))
    /\ [][/\ \A c, d \in Calls :
                (c # d /\ <<attempt[c], invoked[c], outcomes[c], settled[c], lastError[c]>>
                            # <<attempt'[c], invoked'[c], outcomes'[c], settled'[c], lastError'[c]>>)
                    => <<attempt[d], invoked[d], outcomes[d], settled[d], lastError[d], pc[d]>>
                            = <<attempt'[d], invoked'[d], outcomes'[d], settled'[d], lastError'[d], pc'[d]>>
          /\ lastActivity' # lastActivity => (AttemptStarts \/ RenewalSucceeds)
          /\ (AttemptStarts \/ RenewalSucceeds) => lastActivity' = now]_vars

\* both calls are under way at once, at different attempts, and one of them has
\* already rejected once before
C25_Witness ==
    /\ pc["c1"] = "awaitOp"
    /\ invoked["c1"] = 2
    /\ pc["c2"] = "awaitExtend"
    /\ invoked["c2"] = 1
    /\ lastActivity = now
    /\ now > 0

\* C26: an extendSandboxTimeout invocation stamps lastActivity exactly when
\* sandbox.setTimeout is present and its call resolves. Without sandbox.setTimeout
\* no invocation calls the sandbox, throws or writes lastActivity: it ends "noop"
\* with no error. When the call throws, lastActivity is left as it was and the
\* caller (other than the interval callback, which catches) receives that error.
C26_RenewStampsIffSucceeded ==
    [][/\ \A o \in Owners :
            /\ inFlight'[o] < inFlight[o] =>
                  /\ hasSetTimeout
                  /\ Held(o, ext'[o]) \in {Held(o, "ok"), Held(o, "threw")}
                  /\ (leaseRenewedAt' = now /\ extError'[o] = NullError) => lastActivity' = now
                  /\ leaseRenewedAt' # now \/ extError'[o] # NullError =>
                        /\ lastActivity' = lastActivity
                        /\ o # "tick" => /\ ext'[o] = "threw"
                                         /\ extError'[o].message \in RenewErrorMessages
                  /\ ext'[o] = "ok" => (lastActivity' = now /\ extError'[o] = NullError)
                  /\ ext'[o] = "threw" => (lastActivity' = lastActivity /\ extError'[o] # NullError)
            /\ ~hasSetTimeout =>
                  /\ inFlight'[o] = 0
                  /\ ext'[o] \in {"none", "noop"}
                  /\ extError'[o] = NullError
            /\ (ext[o] # "noop" /\ ext'[o] = "noop") =>
                  /\ ~hasSetTimeout
                  /\ ~AttemptStarts => lastActivity' = lastActivity
       /\ lastActivity' # lastActivity =>
            \/ AttemptStarts
            \/ \E o \in Owners : inFlight'[o] < inFlight[o] /\ leaseRenewedAt' = now]_vars

\* a direct extendSandboxTimeout has thrown to its caller after an earlier stamp,
\* and the stamp is older than the present
C26_Witness ==
    /\ ext["direct"] = "threw"
    /\ extError["direct"].message \in RenewErrorMessages
    /\ lastActivity < now

\* C27: once cleanup() has returned, autoExtendTimer is unset and stays unset
\* (getStatus().autoExtendEnabled is !!autoExtendTimer), the interval callback
\* never runs again, and no sandbox.setTimeout call is started by it; a call it had
\* started before may still settle.
C27_StoppedForGood ==
    [][cleanedUp =>
          /\ ~autoExtendTimer
          /\ ~autoExtendTimer'
          /\ nextTick' = nextTick
          /\ lastTick' = lastTick
          /\ inFlight'["tick"] <= inFlight["tick"]]_vars

\* cleanup() returned after a callback had extended, and the time of the firing
\* that would have followed has passed with no callback run
C27_Witness ==
    /\ cleanedUp
    /\ lastTick.extendCalls = 1
    /\ now > nextTick
    /\ inFlight["tick"] = 0

\* C28: the manager held in the slot has its timer set whenever its constructor
\* started the timer and no caller invoked cleanup() on it itself.
C28_InstalledKeepsTimer ==
    (/\ globalTimeoutManager # NoManager
     /\ globalTimeoutManager \in timerStarted
     /\ globalTimeoutManager \notin directCleanups)
        => managerTimer[globalTimeoutManager]

\* C29: a crawl never scrapes a URL twice and never holds more than maxPages
\* pages; what it returns is its pages, at most maxPages of them, no URL twice,
\* each at a depth of at most maxDepth, with totalPages their number; and, every
\* scrape settling, a crawl that was started ends.
C29_CrawlTerminatesBounded ==
    /\ [](/\ \A u \in Urls : fetches[u] <= 1
          /\ crawlPc # "idle" => Len(pages) <= crawlOptions.maxPages
          /\ crawlPc = "returned" =>
                /\ crawlResult.pages = pages
                /\ crawlResult.totalPages = Len(crawlResult.pages)
                /\ Len(crawlResult.pages) <= crawlOptions.maxPages
                /\ \A i \in 1..Len(crawlResult.pages) :
                      /\ crawlResult.pages[i].depth <= crawlOptions.maxDepth
                      /\ \A j \in 1..Len(crawlResult.pages) :
                            i # j => crawlResult.pages[i].url # crawlResult.pages[j].url)
    /\ (crawlPc # "idle") ~> (crawlPc \in {"returned", "threw"})

\* a crawl returned maxPages pages with a URL still queued, on a site whose second
\* page links back to the first
C29_Witness ==
    /\ crawlPc = "returned"
    /\ crawlOptions.maxPages = 2
    /\ crawlResult.totalPages = 2
    /\ queue # <<>>
    /\ \E i \in 1..Len(site[pages[2].url]) : site[pages[2].url][i] = pages[1].url

\* C30: the session manager has created at most one session, and all callers
\* that obtained a session id from getCurrentSession obtained the same one.
C30_OneSessionCreated ==
    /\ sessionsCreated <= 1
    /\ \A g, h \in SessionCallers :
          (sessionOf[g] # NoSession /\ sessionOf[h] # NoSession) => sessionOf[g] = sessionOf[h]

=============================================================================
